---- MODULE Spec2Model ----
(***************************************************************************)
(* Compile-time model of the two compatibility headers                     *)
(*     headers/asm/posix_types.h   and   headers/asm/types.h               *)
(* The "program" is a translation unit being preprocessed and compiled:    *)
(* its state is the macro table, the typedef declarations seen so far, the *)
(* diagnostics issued and the objects declared.  Each directive of the     *)
(* translation unit (an #include of one header, a block of variable        *)
(* declarations) is one action that processes the whole header text.       *)
(***************************************************************************)
EXTENDS Integers, Sequences, FiniteSets, TLC

VARIABLES
    host,      \* the host ABI the translation unit is compiled for
    std,       \* the C language standard in force ("c99" or "c11")
    macros,    \* macro table: set of [name, by]
    decls,     \* typedef declarations processed so far, in order: [name, ty, by]
    errors,    \* diagnostics issued: set of [kind, name]
    objects,   \* alias names of which a variable has been declared
    tu         \* the directives of the translation unit processed so far

vars == <<host, std, macros, decls, errors, objects, tu>>

\* Longest translation unit explored (number of directives).
MaxDirectives == 4

-----------------------------------------------------------------------------
(* Hosts and the C basic integer types                                      *)

\* 64-bit hosts the shim is written for, and the 32-bit host its comment names.
Hosts == {"darwin64", "linux64", "linux32"}

Hosts64 == {"darwin64", "linux64"}

Standards == {"c99", "c11"}

SignedTypes == {"signed char", "short", "int", "long", "long long"}

UnsignedTypes == {"unsigned char", "unsigned short", "unsigned int",
                  "unsigned long", "unsigned long long"}

BasicTypes == SignedTypes \cup UnsignedTypes

Unknown == "?"

\* Width of `long` / `unsigned long` on a host: LP64 versus ILP32.
LongBits(h) == IF h \in Hosts64 THEN 64 ELSE 32

\* Width in bits of a basic integer type on host h.
Bits(h, ty) ==
    CASE ty \in {"signed char", "unsigned char"}     -> 8
      [] ty \in {"short", "unsigned short"}          -> 16
      [] ty \in {"int", "unsigned int"}              -> 32
      [] ty \in {"long", "unsigned long"}            -> LongBits(h)
      [] ty \in {"long long", "unsigned long long"}  -> 64
      [] OTHER                                       -> 0

IsSigned(ty) == ty \in SignedTypes

-----------------------------------------------------------------------------
(* <stdint.h>, the system header both shims include                         *)

StdintH == "stdint.h"

StdintGuard == "_STDINT_H"

\* The basic type an exact-width stdint typedef denotes on host h.
StdintBase(h, name) ==
    CASE name = "uint8_t"  -> "unsigned char"
      [] name = "int8_t"   -> "signed char"
      [] name = "uint16_t" -> "unsigned short"
      [] name = "int16_t"  -> "short"
      [] name = "uint32_t" -> "unsigned int"
      [] name = "int32_t"  -> "int"
      [] name = "uint64_t" -> IF h = "linux64" THEN "unsigned long"
                                               ELSE "unsigned long long"
      [] name = "int64_t"  -> IF h = "linux64" THEN "long" ELSE "long long"
      [] OTHER             -> Unknown

StdintNames == {"uint8_t", "int8_t", "uint16_t", "int16_t",
                "uint32_t", "int32_t", "uint64_t", "int64_t"}

\* Limit macros of the exact-width types, with the header's own guard.
StdintMacros == {StdintGuard,
                 "INT8_MIN", "INT8_MAX", "UINT8_MAX",
                 "INT16_MIN", "INT16_MAX", "UINT16_MAX",
                 "INT32_MIN", "INT32_MAX", "UINT32_MAX",
                 "INT64_MIN", "INT64_MAX", "UINT64_MAX"}

StdintTypedefs == <<"uint8_t", "int8_t", "uint16_t", "int16_t",
                    "uint32_t", "int32_t", "uint64_t", "int64_t">>

-----------------------------------------------------------------------------
(* The two headers of the repository                                        *)

PosixTypesH == "asm/posix_types.h"

TypesH == "asm/types.h"

ShimHeaders == {PosixTypesH, TypesH}

\* Another header visible in the same translation unit, which defines one of
\* the alias names itself under a guard of its own.
OtherH == "other.h"

OtherGuard == "_OTHER_H"

\* Variant: the shim guarded by the macro the other header uses.
Guard_Shared(h) == OtherGuard

\* Variant: both headers written with the same guard macro.
Guard_Copied(h) == "_ASM_TYPES_H"

\* The inclusion-guard macro of each header.
Guard(h) == IF h = PosixTypesH THEN "_ASM_POSIX_TYPES_H" ELSE "_ASM_TYPES_H"

\* Variant: the inode number typed as the kernel types it, by `unsigned long`.
PosixTypedefs_InoLong ==
    << <<"uint64_t", "__kernel_dev_t">>,
       <<"unsigned long", "__kernel_ino_t">>,
       <<"uint32_t", "__kernel_mode_t">>,
       <<"uint32_t", "__kernel_nlink_t">>,
       <<"uint32_t", "__kernel_uid_t">>,
       <<"uint32_t", "__kernel_gid_t">>,
       <<"int64_t",  "__kernel_off_t">>,
       <<"int32_t",  "__kernel_pid_t">>,
       <<"int32_t",  "__kernel_daddr_t">> >>

\* Variant: the pid typed 64 bits wide.
PosixTypedefs_WidePid ==
    << <<"uint64_t", "__kernel_dev_t">>,
       <<"uint64_t", "__kernel_ino_t">>,
       <<"uint32_t", "__kernel_mode_t">>,
       <<"uint32_t", "__kernel_nlink_t">>,
       <<"uint32_t", "__kernel_uid_t">>,
       <<"uint32_t", "__kernel_gid_t">>,
       <<"int64_t",  "__kernel_off_t">>,
       <<"int64_t",  "__kernel_pid_t">>,
       <<"int32_t",  "__kernel_daddr_t">> >>

\* typedef <target> <name>; in the order of the header text.
PosixTypedefs ==
    << <<"uint64_t", "__kernel_dev_t">>,
       <<"uint64_t", "__kernel_ino_t">>,
       <<"uint32_t", "__kernel_mode_t">>,
       <<"uint32_t", "__kernel_nlink_t">>,
       <<"uint32_t", "__kernel_uid_t">>,
       <<"uint32_t", "__kernel_gid_t">>,
       <<"int64_t",  "__kernel_off_t">>,
       <<"int32_t",  "__kernel_pid_t">>,
       <<"int32_t",  "__kernel_daddr_t">> >>

\* Variant: __s16 copied from the line above it without changing the target.
TypesFixedTypedefs_S16Unsigned ==
    << <<"uint8_t",  "__u8">>,
       <<"int8_t",   "__s8">>,
       <<"uint16_t", "__u16">>,
       <<"uint16_t", "__s16">>,
       <<"uint32_t", "__u32">>,
       <<"int32_t",  "__s32">>,
       <<"uint64_t", "__u64">>,
       <<"int64_t",  "__s64">> >>

\* The exact-width aliases of asm/types.h.
TypesFixedTypedefs ==
    << <<"uint8_t",  "__u8">>,
       <<"int8_t",   "__s8">>,
       <<"uint16_t", "__u16">>,
       <<"int16_t",  "__s16">>,
       <<"uint32_t", "__u32">>,
       <<"int32_t",  "__s32">>,
       <<"uint64_t", "__u64">>,
       <<"int64_t",  "__s64">> >>

\* Variant: the long aliases pinned to 64 bits, as posix_types.h pins its own.
TypesLongTypedefs_Pinned64 ==
    << <<"uint64_t", "__kernel_ulong_t">>,
       <<"int64_t",  "__kernel_long_t">> >>

\* Variant: __kernel_long_t written in terms of the other header's offset type.
TypesLongTypedefs_UsesOff ==
    << <<"unsigned long",  "__kernel_ulong_t">>,
       <<"__kernel_off_t", "__kernel_long_t">> >>

\* Variant: types.h also declares the offset type posix_types.h declares.
TypesLongTypedefs_AlsoOff ==
    << <<"unsigned long", "__kernel_ulong_t">>,
       <<"long",          "__kernel_long_t">>,
       <<"long",          "__kernel_off_t">> >>

\* Variant: types.h declares one more name than it documents.
TypesLongTypedefs_Extra ==
    << <<"unsigned long", "__kernel_ulong_t">>,
       <<"long",          "__kernel_long_t">>,
       <<"unsigned long", "__kernel_size_t">> >>

\* The platform-width aliases of asm/types.h.
TypesLongTypedefs ==
    << <<"unsigned long", "__kernel_ulong_t">>,
       <<"long",          "__kernel_long_t">> >>

TypesTypedefs == TypesFixedTypedefs \o TypesLongTypedefs

Typedefs(h) == IF h = PosixTypesH THEN PosixTypedefs ELSE TypesTypedefs

\* The alias names a header exports.
Aliases(h) == {Typedefs(h)[i][2] : i \in 1..Len(Typedefs(h))}

AllAliases == Aliases(PosixTypesH) \cup Aliases(TypesH)

\* The target a header's text gives for alias n.
TargetOf(h, n) ==
    Typedefs(h)[CHOOSE i \in 1..Len(Typedefs(h)) : Typedefs(h)[i][2] = n][1]

-----------------------------------------------------------------------------
(* Compiler front end: macro table and typedef declarations                 *)

Defined(ms, m) == \E r \in ms : r.name = m

IsDeclared(ds, n) == \E i \in 1..Len(ds) : ds[i].name = n

\* The declaration that introduced n (later ones must agree with it).
FirstDecl(ds, n) ==
    ds[CHOOSE i \in 1..Len(ds) :
           ds[i].name = n /\ \A j \in 1..(i-1) : ds[j].name # n]

EffectiveType(ds, n) == IF IsDeclared(ds, n) THEN FirstDecl(ds, n).ty ELSE Unknown

\* A type specifier is a basic type or a typedef name already in scope.
ResolveType(ds, target) ==
    IF target \in BasicTypes THEN target ELSE EffectiveType(ds, target)

Diag(k, n) == [kind |-> k, name |-> n]

\* typedef <target> <name>; written in file `by`, on a front-end state
\* st = [macros, decls, errors].  A typedef name may be declared again only
\* with the same type, and only from C11 on.
Typedef(st, target, name, by) ==
    LET ty == ResolveType(st.decls, target)
        d  == [name |-> name, ty |-> ty, by |-> by]
    IN  IF ty = Unknown
        THEN [st EXCEPT !.errors = @ \cup {Diag("unknown type name", target)}]
        ELSE IF ~IsDeclared(st.decls, name)
        THEN [st EXCEPT !.decls = Append(@, d)]
        ELSE IF EffectiveType(st.decls, name) # ty
        THEN [st EXCEPT !.decls = Append(@, d),
                        !.errors = @ \cup {Diag("conflicting types", name)}]
        ELSE IF std = "c11"
        THEN [st EXCEPT !.decls = Append(@, d)]
        ELSE [st EXCEPT !.decls = Append(@, d),
                        !.errors = @ \cup {Diag("redefinition of typedef", name)}]

RECURSIVE ProcessTypedefs(_, _, _)
ProcessTypedefs(st, tds, by) ==
    IF tds = <<>> THEN st
    ELSE ProcessTypedefs(Typedef(st, Head(tds)[1], Head(tds)[2], by), Tail(tds), by)

RECURSIVE ProcessStdint(_, _)
ProcessStdint(st, names) ==
    IF names = <<>> THEN st
    ELSE ProcessStdint(Typedef(st, StdintBase(host, Head(names)), Head(names), StdintH),
                       Tail(names))

\* #include <stdint.h>
IncludeStdint(st) ==
    IF Defined(st.macros, StdintGuard) THEN st
    ELSE ProcessStdint(
             [st EXCEPT !.macros = @ \cup {[name |-> m, by |-> StdintH] : m \in StdintMacros}],
             StdintTypedefs)

\* Variant: the header text without its #ifndef / #endif pair.
IncludeHeader_NoGuard(st, h) ==
    ProcessTypedefs(
        IncludeStdint([st EXCEPT !.macros = @ \cup {[name |-> Guard(h), by |-> h]}]),
        Typedefs(h), h)

\* #include <asm/posix_types.h>  or  #include <asm/types.h>:
\* #ifndef GUARD / #define GUARD / #include <stdint.h> / typedefs / #endif
IncludeHeader(st, h) ==
    IF Defined(st.macros, Guard(h)) THEN st
    ELSE ProcessTypedefs(
             IncludeStdint([st EXCEPT !.macros = @ \cup {[name |-> Guard(h), by |-> h]}]),
             Typedefs(h), h)

FrontEnd == [macros |-> macros, decls |-> decls, errors |-> errors]

Install(st) ==
    /\ macros' = st.macros
    /\ decls' = st.decls
    /\ errors' = st.errors

-----------------------------------------------------------------------------
(* Directives of the translation unit                                       *)

Init ==
    /\ host \in Hosts
    /\ std \in Standards
    /\ macros = {}
    /\ decls = <<>>
    /\ errors = {}
    /\ objects = {}
    /\ tu = <<>>

IncludePosixTypes ==
    /\ Len(tu) < MaxDirectives
    /\ Install(IncludeHeader(FrontEnd, PosixTypesH))
    /\ tu' = Append(tu, PosixTypesH)
    /\ UNCHANGED <<host, std, objects>>

IncludeTypes ==
    /\ Len(tu) < MaxDirectives
    /\ Install(IncludeHeader(FrontEnd, TypesH))
    /\ tu' = Append(tu, TypesH)
    /\ UNCHANGED <<host, std, objects>>

IncludeStdintH ==
    /\ Len(tu) < MaxDirectives
    /\ Install(IncludeStdint(FrontEnd))
    /\ tu' = Append(tu, StdintH)
    /\ UNCHANGED <<host, std, objects>>

\* The consumer declares one variable of each alias name in S.
DeclareKinds == {"vars:posix", "vars:types", "vars:all"}

NamesOf(k) ==
    CASE k = "vars:posix" -> Aliases(PosixTypesH)
      [] k = "vars:types" -> Aliases(TypesH)
      [] OTHER            -> AllAliases

DeclareVars(k) ==
    /\ Len(tu) < MaxDirectives
    /\ objects' = objects \cup {n \in NamesOf(k) : IsDeclared(decls, n)}
    /\ errors' = errors \cup
           {Diag("unknown type name", n) : n \in {m \in NamesOf(k) : ~IsDeclared(decls, m)}}
    /\ tu' = Append(tu, k)
    /\ UNCHANGED <<host, std, macros, decls>>

Declare == \E k \in DeclareKinds : DeclareVars(k)

Next ==
    \/ IncludePosixTypes
    \/ IncludeTypes
    \/ IncludeStdintH
    \/ Declare

Spec == Init /\ [][Next]_vars

-----------------------------------------------------------------------------
(* The translation unit with another header that defines an alias name      *)

OtherNames == {"__u64", "__kernel_ino_t"}

OtherTargets == {"unsigned long long", "unsigned long"}

\* #include "other.h", whose text is: guard, typedef <t> <n>;
IncludeOtherHeader(st, n, t) ==
    IF Defined(st.macros, OtherGuard) THEN st
    ELSE Typedef([st EXCEPT !.macros = @ \cup {[name |-> OtherGuard, by |-> OtherH]}],
                 t, n, OtherH)

IncludeOther ==
    /\ Len(tu) < MaxDirectives
    /\ \E n \in OtherNames, t \in OtherTargets :
           Install(IncludeOtherHeader(FrontEnd, n, t))
    /\ tu' = Append(tu, OtherH)
    /\ UNCHANGED <<host, std, objects>>

NextForeign ==
    \/ IncludePosixTypes
    \/ IncludeTypes
    \/ IncludeStdintH
    \/ IncludeOther

SpecForeign == Init /\ [][NextForeign]_vars

-----------------------------------------------------------------------------
(* Vocabulary of the properties                                             *)

Included(h) == \E i \in 1..Len(tu) : tu[i] = h

Count(h) == Cardinality({i \in 1..Len(tu) : tu[i] = h})

DeclCount(n) == Cardinality({i \in 1..Len(decls) : decls[i].name = n})

DeclSet(ds) == {ds[i] : i \in 1..Len(ds)}

DeclaredNames == {d.name : d \in DeclSet(decls)}

MacroNames == {m.name : m \in macros}

TypeOfAlias(n) == EffectiveType(decls, n)

EmptyFrontEnd == [macros |-> {}, decls |-> <<>>, errors |-> {}]

ClashKinds == {"conflicting types", "redefinition of typedef"}

\* The documented interface: alias name, width in bits, signedness.
Doc(n, b, s) == [name |-> n, bits |-> b, signed |-> s]

DocPosix ==
    { Doc("__kernel_dev_t", 64, FALSE),  Doc("__kernel_ino_t", 64, FALSE),
      Doc("__kernel_mode_t", 32, FALSE), Doc("__kernel_nlink_t", 32, FALSE),
      Doc("__kernel_uid_t", 32, FALSE),  Doc("__kernel_gid_t", 32, FALSE),
      Doc("__kernel_off_t", 64, TRUE),   Doc("__kernel_pid_t", 32, TRUE),
      Doc("__kernel_daddr_t", 32, TRUE) }

DocFixed ==
    { Doc("__u8", 8, FALSE),   Doc("__s8", 8, TRUE),
      Doc("__u16", 16, FALSE), Doc("__s16", 16, TRUE),
      Doc("__u32", 32, FALSE), Doc("__s32", 32, TRUE),
      Doc("__u64", 64, FALSE), Doc("__s64", 64, TRUE) }

DocLongNames == {"__kernel_ulong_t", "__kernel_long_t"}

DocNames(h) ==
    IF h = PosixTypesH THEN {d.name : d \in DocPosix}
    ELSE {d.name : d \in DocFixed} \cup DocLongNames

DocAll == DocNames(PosixTypesH) \cup DocNames(TypesH)

Matches(d) ==
    /\ IsDeclared(decls, d.name)
    /\ Bits(host, TypeOfAlias(d.name)) = d.bits
    /\ IsSigned(TypeOfAlias(d.name)) = d.signed
    /\ TypeOfAlias(d.name) \in BasicTypes

-----------------------------------------------------------------------------
(* C1: once asm/posix_types.h has been included, each of its nine aliases   *)
(* denotes a type of exactly the documented width and signedness: dev and   *)
(* ino 64-bit unsigned; mode, nlink, uid, gid 32-bit unsigned; off 64-bit   *)
(* signed; pid and daddr 32-bit signed; and it exports those nine only.     *)
C1_PosixWidths ==
    Included(PosixTypesH) =>
        /\ \A d \in DocPosix : Matches(d)
        /\ {n \in DeclaredNames : FirstDecl(decls, n).by = PosixTypesH}
               = {d.name : d \in DocPosix}
        /\ Cardinality(DocPosix) = 9

C1_Witness ==
    /\ Included(PosixTypesH)
    /\ host = "linux32"
    /\ TypeOfAlias("__kernel_ino_t") = "unsigned long long"

(* C2: once asm/types.h has been included, for every width N in 8, 16, 32,  *)
(* 64 it has declared exactly two exact-width aliases, __uN unsigned and    *)
(* __sN signed, each exactly N bits wide.                                   *)
C2_FixedWidths ==
    Included(TypesH) =>
        /\ \A d \in DocFixed : Matches(d)
        /\ \A N \in {8, 16, 32, 64} :
               LET exact == {n \in DeclaredNames :
                                /\ FirstDecl(decls, n).by = TypesH
                                /\ TargetOf(TypesH, n) \in StdintNames
                                /\ Bits(host, TypeOfAlias(n)) = N}
               IN  /\ Cardinality(exact) = 2
                   /\ exact = {d.name : d \in {e \in DocFixed : e.bits = N}}
                   /\ \E u, s \in exact : ~IsSigned(TypeOfAlias(u)) /\ IsSigned(TypeOfAlias(s))

C2_Witness ==
    /\ Included(TypesH)
    /\ TypeOfAlias("__s64") = "long"
    /\ TypeOfAlias("__u8") = "unsigned char"

(* C3: including a header any number of times is the same as including it   *)
(* once: its guard is defined from the first inclusion on, the declarations *)
(* it contributes are those of a single inclusion into an empty unit, each  *)
(* of its aliases is declared exactly once, and no redefinition or          *)
(* conflicting-types diagnostic is ever issued.                             *)
C3_GuardIdempotent ==
    /\ \A h \in ShimHeaders :
          /\ Defined(macros, Guard(h)) <=> Count(h) >= 1
          /\ Count(h) >= 1 =>
                /\ SelectSeq(decls, LAMBDA d : d.by = h)
                      = SelectSeq(IncludeHeader(EmptyFrontEnd, h).decls,
                                  LAMBDA d : d.by = h)
                /\ \A n \in DocNames(h) : DeclCount(n) = 1
          /\ Count(h) = 0 => \A n \in DocNames(h) : DeclCount(n) = 0
    /\ \A e \in errors : e.kind \notin ClashKinds

C3_Witness ==
    /\ Count(TypesH) >= 2
    /\ Count(PosixTypesH) >= 2
    /\ std = "c99"

(* C4: with both headers in one translation unit, in either order and any   *)
(* number of times each, no name receives declarations from both: the two   *)
(* guard macros differ, the two sets of alias names are disjoint, and no    *)
(* conflicting-types or redefinition diagnostic is issued.                  *)
C4_NoSymbolConflict ==
    /\ Guard(PosixTypesH) # Guard(TypesH)
    /\ Aliases(PosixTypesH) \cap Aliases(TypesH) = {}
    /\ \A i, j \in 1..Len(decls) :
          (decls[i].name = decls[j].name) => (decls[i].by = decls[j].by)
    /\ (Included(PosixTypesH) /\ Included(TypesH)) =>
          /\ Defined(macros, Guard(PosixTypesH)) /\ Defined(macros, Guard(TypesH))
          /\ \A n \in DocAll : \A e \in errors : e.name = n => e.kind \notin ClashKinds

C4_Witness ==
    \E i, j, k \in 1..Len(tu) :
        /\ i < j /\ j < k
        /\ tu[i] = TypesH /\ tu[j] = PosixTypesH /\ tu[k] = TypesH

(* C5: asm/types.h declares exactly two platform-width aliases:             *)
(* __kernel_ulong_t is unsigned long and __kernel_long_t is long; both have *)
(* the width of the host's long (64 bits on an LP64 host, 32 on a 32-bit    *)
(* host) and they differ in signedness only.                                *)
C5_LongAliases ==
    Included(TypesH) =>
        /\ TypeOfAlias("__kernel_ulong_t") = "unsigned long"
        /\ TypeOfAlias("__kernel_long_t") = "long"
        /\ Bits(host, TypeOfAlias("__kernel_ulong_t"))
              = Bits(host, TypeOfAlias("__kernel_long_t"))
        /\ host \in Hosts64 => Bits(host, TypeOfAlias("__kernel_long_t")) = 64
        /\ host = "linux32" => Bits(host, TypeOfAlias("__kernel_long_t")) = 32
        /\ ~IsSigned(TypeOfAlias("__kernel_ulong_t"))
        /\ IsSigned(TypeOfAlias("__kernel_long_t"))
        /\ {n \in DeclaredNames : /\ FirstDecl(decls, n).by = TypesH
                                  /\ n \notin {d.name : d \in DocFixed}}
              = DocLongNames

C5_Witness ==
    /\ Included(TypesH)
    /\ host = "linux32"
    /\ Bits(host, TypeOfAlias("__kernel_ulong_t")) = 32

\* Every block of variable declarations comes after both headers.
DeclaresAfterHeaders ==
    \A i \in 1..Len(tu) :
        tu[i] \in DeclareKinds =>
            /\ \E j \in 1..(i-1) : tu[j] = PosixTypesH
            /\ \E j \in 1..(i-1) : tu[j] = TypesH

(* C8: on a 64-bit host, a translation unit that includes both headers and  *)
(* then declares one variable of each exported name compiles: each of the   *)
(* 19 names (9 and 10) is declared exactly once and denotes a complete      *)
(* integer type, every variable is accepted and no diagnostic is issued.    *)
C8_MinimalUnitCompiles ==
    (host \in Hosts64 /\ Included(PosixTypesH) /\ Included(TypesH)
       /\ DeclaresAfterHeaders) =>
        /\ Cardinality(DocNames(PosixTypesH)) = 9
        /\ Cardinality(DocNames(TypesH)) = 10
        /\ Cardinality(DocAll) = 19
        /\ \A n \in DocAll : DeclCount(n) = 1 /\ TypeOfAlias(n) \in BasicTypes
        /\ errors = {}
        /\ \A k \in DeclareKinds : Included(k) => NamesOf(k) \subseteq objects
        /\ Included("vars:all") => objects = DocAll

C8_Witness ==
    /\ host \in Hosts64
    /\ Included(PosixTypesH) /\ Included(TypesH)
    /\ DeclaresAfterHeaders
    /\ Included("vars:all")
    /\ objects = DocAll

(* C9: the two headers are independent: neither names a type the other      *)
(* declares; with only one of them included exactly that header's aliases   *)
(* are available; and with both included the declarations in scope are the  *)
(* same whichever came first.                                               *)
C9_IndependentLeaves ==
    /\ \A h \in ShimHeaders : \A i \in 1..Len(Typedefs(h)) :
          Typedefs(h)[i][1] \notin DocAll
    /\ \A h \in ShimHeaders :
          (Included(h) /\ \A g \in ShimHeaders \ {h} : ~Included(g)) =>
              DeclaredNames \cap DocAll = DocNames(h)
    /\ (Included(PosixTypesH) /\ Included(TypesH)) =>
          /\ DeclSet(decls)
                = DeclSet(IncludeHeader(IncludeHeader(EmptyFrontEnd, PosixTypesH),
                                        TypesH).decls)
          /\ DeclSet(decls)
                = DeclSet(IncludeHeader(IncludeHeader(EmptyFrontEnd, TypesH),
                                        PosixTypesH).decls)
          /\ DeclaredNames \cap DocAll = DocAll

C9_Witness ==
    /\ Len(tu) >= 2
    /\ tu[1] = TypesH
    /\ tu[2] = PosixTypesH

\* Width and signedness a header's text gives alias n on host h.
WidthOn(h, hdr, n) ==
    LET t == TargetOf(hdr, n)
    IN  IF t \in StdintNames THEN Bits(h, StdintBase(h, t)) ELSE Bits(h, t)

SignedOn(h, hdr, n) ==
    LET t == TargetOf(hdr, n)
    IN  IF t \in StdintNames THEN IsSigned(StdintBase(h, t)) ELSE IsSigned(t)

(* C10: the width and signedness of every exact-width alias (the nine of    *)
(* asm/posix_types.h, __u8 .. __s64 of asm/types.h) are the same on every   *)
(* host, 32-bit or 64-bit; only __kernel_ulong_t and __kernel_long_t change *)
(* width with the host.  On a 32-bit host the dev, ino and off aliases are  *)
(* still 64 bits wide.                                                      *)
C10_HostIndependentWidths ==
    /\ \A hdr \in ShimHeaders : Included(hdr) =>
          \A n \in DocNames(hdr) :
              IF n \in DocLongNames
              THEN /\ Bits(host, TypeOfAlias(n)) = LongBits(host)
                   /\ \E h1, h2 \in Hosts : WidthOn(h1, hdr, n) # WidthOn(h2, hdr, n)
              ELSE \A h2 \in Hosts :
                       /\ Bits(host, TypeOfAlias(n)) = WidthOn(h2, hdr, n)
                       /\ IsSigned(TypeOfAlias(n)) = SignedOn(h2, hdr, n)
    /\ (host = "linux32" /\ Included(PosixTypesH)) =>
          \A n \in {"__kernel_dev_t", "__kernel_ino_t", "__kernel_off_t"} :
              Bits(host, TypeOfAlias(n)) = 64

C10_Witness ==
    /\ host = "linux32"
    /\ Included(PosixTypesH) /\ Included(TypesH)
    /\ Bits(host, TypeOfAlias("__kernel_off_t")) = 64
    /\ Bits(host, TypeOfAlias("__kernel_long_t")) = 32

\* The translation unit consists of inclusions of the two headers only.
OnlyShimIncludes == Len(tu) >= 1 /\ \A i \in 1..Len(tu) : tu[i] \in ShimHeaders

(* C6 as stated: after including a header, the only names added to the      *)
(* translation unit are the header's listed aliases and the only macro      *)
(* defined is its inclusion guard.                                          *)
C6_OnlyAliasesAndGuard ==
    OnlyShimIncludes =>
        /\ DeclaredNames \subseteq UNION {DocNames(h) : h \in {g \in ShimHeaders : Included(g)}}
        /\ MacroNames \subseteq {Guard(h) : h \in {g \in ShimHeaders : Included(g)}}

(* C6 amended: a header's own text declares exactly its listed aliases and  *)
(* defines exactly its inclusion guard; everything else in the translation  *)
(* unit comes from <stdint.h>, which each header includes, so that after    *)
(* including a header the exact-width typedef names and the macros of       *)
(* <stdint.h> are in the unit as well.                                      *)
C6_OwnTextOnlyAliasesAndGuard ==
    /\ \A h \in ShimHeaders :
          /\ {d.name : d \in {e \in DeclSet(decls) : e.by = h}}
                = IF Included(h) THEN DocNames(h) ELSE {}
          /\ {m.name : m \in {r \in macros : r.by = h}}
                = IF Included(h) THEN {Guard(h)} ELSE {}
          /\ Included(h) =>
                /\ StdintNames \subseteq DeclaredNames
                /\ StdintMacros \subseteq MacroNames
    /\ \A d \in DeclSet(decls) :
          d.by \notin ShimHeaders => d.by = StdintH /\ d.name \in StdintNames
    /\ \A m \in macros :
          m.by \notin ShimHeaders => m.by = StdintH /\ m.name \in StdintMacros

C6_Witness ==
    /\ tu = <<TypesH>>
    /\ "uint8_t" \in DeclaredNames
    /\ "__u8" \in DeclaredNames
    /\ StdintGuard \in MacroNames

\* The other header has declared n.
OtherDeclares(n) == \E d \in DeclSet(decls) : d.by = OtherH /\ d.name = n

OtherType(n) == (CHOOSE d \in DeclSet(decls) : d.by = OtherH /\ d.name = n).ty

\* The other header was included before header h.
OtherFirst(h) ==
    \E i \in 1..Len(tu) : tu[i] = OtherH /\ \A j \in 1..(i-1) : tu[j] # h

(* C7 as stated: in a translation unit where another header has already     *)
(* defined one of the alias names, including the shim header reaches no     *)
(* redefinition or conflicting-types error, thanks to the inclusion guard.  *)
C7_GuardPreventsConflict ==
    \A h \in ShimHeaders : \A n \in DocNames(h) :
        (OtherFirst(h) /\ OtherDeclares(n) /\ Included(h)) =>
            \A e \in errors : e.name = n => e.kind \notin ClashKinds

(* C7 amended: the inclusion guard only keeps a header from being processed *)
(* twice.  Where another header has already defined one of the alias names, *)
(* including the shim header declares the name again: that is a             *)
(* conflicting-types error when the two types differ, a redefinition error  *)
(* before C11 when they are the same, and accepted only from C11 on with    *)
(* the same type.  No such error arises without the other header.           *)
C7_GuardOnlyStopsReinclusion ==
    /\ \A h \in ShimHeaders : \A n \in DocNames(h) :
          (OtherFirst(h) /\ OtherDeclares(n) /\ Included(h)) =>
              LET mine == ResolveType(decls, TargetOf(h, n))
              IN  /\ Defined(macros, Guard(h))
                  /\ DeclCount(n) = 2
                  /\ OtherType(n) # mine => Diag("conflicting types", n) \in errors
                  /\ (OtherType(n) = mine /\ std = "c99") =>
                        Diag("redefinition of typedef", n) \in errors
                  /\ (OtherType(n) = mine /\ std = "c11") =>
                        \A e \in errors : e.name # n
    /\ \A e \in errors : e.kind \in ClashKinds => OtherDeclares(e.name)

C7_Witness ==
    /\ Len(tu) >= 2
    /\ tu[1] = OtherH
    /\ tu[2] = TypesH
    /\ host = "linux64"
    /\ OtherDeclares("__u64")
    /\ OtherType("__u64") = "unsigned long long"
    /\ Diag("conflicting types", "__u64") \in errors

====
